---- MODULE Spec2Model ----
(***************************************************************************)
(* NuclearWasteTracker (src/src/waste_tracker.py): the container and       *)
(* transfer tables of the sqlite database, the register_container and      *)
(* transfer handlers statement by statement with the connection's open     *)
(* transaction, and the read-only queries (compliance_check,               *)
(* decay_correct, generate_manifest) as operators over the committed       *)
(* tables.                                                                 *)
(*                                                                         *)
(* Numbers.  An activity (a Python float holding a whole number of Bq) is  *)
(* a pair <<hi, lo>> standing for hi * 10^6 + lo with 0 <= lo < 10^6, so   *)
(* that 1e12 + 1 is representable.  A timestamp is a whole number of clock *)
(* ticks since the process started; datetime.isoformat() writes fixed      *)
(* width fields, so the TEXT comparison sqlite makes of two timestamps is  *)
(* the comparison of the instants, and timestamps are compared as numbers. *)
(***************************************************************************)
EXTENDS Integers, Sequences, FiniteSets, TLC

VARIABLES
    containers,   \* committed rows of table containers, in rowid order
    transfers,    \* committed rows of table transfers; the AUTOINCREMENT id is the index
    tx,           \* what the open connection sees: its uncommitted tables
    pc,           \* position of the running handler, "idle" between handlers
    call,         \* the handler running or last run, with its local variables
    ret,          \* what the last handler returned or raised, "none" while one runs
    clock         \* datetime.now(), in ticks

vars == <<containers, transfers, tx, pc, call, ret, clock>>

----------------------------------------------------------------------------
(* Bounds of the model *)

TicksPerDay == 2          \* resolution of the modelled clock
MaxTicks == 1             \* single ticks the clock makes within a year
MaxYears == 1             \* 365-day jumps the clock makes
MaxTransfersLedger == 2   \* transfer records, specification SpecLedger
MaxTransfersDecay == 1    \* transfer records, specification SpecDecay

(* Program constants *)

DAYS_DEFAULT == 365       \* timedelta(days=365), and days=years_needed * 365
SAFE_THRESHOLD_BQ == 1000 \* SAFE_THRESHOLD

Bq(hi, lo) == <<hi, lo>>
ActLt(a, b) == a[1] < b[1] \/ (a[1] = b[1] /\ a[2] < b[2])
ActLeq(a, b) == a = b \/ ActLt(a, b)
ActGt(a, b) == ActLt(b, a)
ZeroBq == Bq(0, 0)
SAFE_THRESHOLD == Bq(0, SAFE_THRESHOLD_BQ)

YearTicks == DAYS_DEFAULT * TicksPerDay

\* datetime.max (9999-12-31, ordinal 3652059) seen from the day the process
\* started (2026-11-02, ordinal 739922): later dates raise OverflowError.
DaysToMaxDate == 3652059 - 739922

----------------------------------------------------------------------------
(* Lookup tables *)

\* HALF_LIVES, in hundredths of a year; .get(iso, 1) for any other identifier
HALF_LIVES(iso) ==
    CASE iso = "Cs-137" -> 3017
      [] iso = "Co-60"  -> 527
      [] iso = "Sr-90"  -> 2880
      [] iso = "H-3"    -> 1232
      [] iso = "C-14"   -> 573000
      [] iso = "Pu-239" -> 2410000
      [] OTHER          -> 100

\* STORAGE_LIMITS.get(storage_class, 1e6)
STORAGE_LIMITS(storage_class) ==
    CASE storage_class = "low_level"    -> Bq(1, 0)
      [] storage_class = "intermediate" -> Bq(1000, 0)
      [] storage_class = "high_level"   -> Bq(1000000, 0)
      [] storage_class = "transuranic"  -> Bq(1, 0)
      [] storage_class = "exempt"       -> Bq(0, 1000)
      [] OTHER                          -> Bq(1, 0)

\* math.log(initial_activity / SAFE_THRESHOLD) / math.log(2), in millionths,
\* rounded down, for the activities above the threshold the model registers
LOG2_MICRO(a) ==
    CASE a = Bq(0, 1001)    -> 1441
      [] a = Bq(0, 2000)    -> 1000000
      [] a = Bq(1, 0)       -> 9965784
      [] a = Bq(1, 1)       -> 9965785
      [] a = Bq(1000, 0)    -> 19931568
      [] a = Bq(1000, 1)    -> 19931568
      [] a = Bq(1000000, 0) -> 29897352
      [] a = Bq(1000000, 1) -> 29897352

Max(S) == CHOOSE x \in S : \A y \in S : y <= x

Range(s) == {s[i] : i \in 1..Len(s)}

\* floor(a * b / 10^8) without leaving 32 bits, for 0 <= a, b < 2^31 / 10^4
MulDiv1e8(a, b) ==
    LET a1 == a \div 10000
        a0 == a % 10000
        b1 == b \div 10000
        b0 == b % 10000
        m  == a1 * b0 + a0 * b1
    IN  a1 * b1 + ((m + ((a0 * b0) \div 10000)) \div 10000)

\* json.dumps(isotopes) and json.loads(isotopes_str): the list as JSON text
json_dumps(l) == [json |-> l]
json_loads(s) == s.json

----------------------------------------------------------------------------
(* Decay model *)

\* years_needed * 365, in ticks rounded down: the half-life in hundredths of
\* a day (hundredths of a year times 365) times log2 in millionths
DecayOffsetTicks(isotopes, initial_activity) ==
    LET max_half_life == Max({HALF_LIVES(iso) : iso \in Range(isotopes)})
    IN  MulDiv1e8(max_half_life * DAYS_DEFAULT,
                  LOG2_MICRO(initial_activity) * TicksPerDay)

\* _calc_decay_date with datetime.now() = now: the decay date (isoformat of
\* the datetime), or the OverflowError datetime + timedelta raises when the
\* sum leaves the datetime range
Returned(date) == [exc |-> "", date |-> date]
Raised(exc) == [exc |-> exc, date |-> 0]

\* without the early return for an activity at or below the threshold:
\* math.log raises ValueError at or below 0 and is negative below the threshold
_calc_decay_date_NoSafeBranch(isotopes, initial_activity, now) ==
    LET max_half_life == Max({HALF_LIVES(iso) : iso \in Range(isotopes)})
    IN  IF isotopes = <<>>
        THEN Returned(now + DAYS_DEFAULT * TicksPerDay)
        ELSE IF ActLeq(initial_activity, ZeroBq)
        THEN Raised("ValueError")
        ELSE IF initial_activity = Bq(0, 500)
        THEN Returned(now - MulDiv1e8(max_half_life * DAYS_DEFAULT, 1000000 * TicksPerDay))
        ELSE IF initial_activity = SAFE_THRESHOLD
        THEN Returned(now)
        ELSE LET off == DecayOffsetTicks(isotopes, initial_activity)
             IN  IF now + off > DaysToMaxDate * TicksPerDay
                 THEN Raised("OverflowError")
                 ELSE Returned(now + off)

\* with the one-year default also for a list of unknown identifiers only
_calc_decay_date_UnknownDefault(isotopes, initial_activity, now) ==
    IF \A iso \in Range(isotopes) : HALF_LIVES(iso) = 100
    THEN Returned(now + DAYS_DEFAULT * TicksPerDay)
    ELSE IF ActLeq(initial_activity, SAFE_THRESHOLD)
    THEN Returned(now)
    ELSE LET off == DecayOffsetTicks(isotopes, initial_activity)
         IN  IF now + off > DaysToMaxDate * TicksPerDay
             THEN Raised("OverflowError")
             ELSE Returned(now + off)

_calc_decay_date(isotopes, initial_activity, now) ==
    IF isotopes = <<>>
    THEN Returned(now + DAYS_DEFAULT * TicksPerDay)
    ELSE IF ActLeq(initial_activity, SAFE_THRESHOLD)
    THEN Returned(now)
    ELSE LET off == DecayOffsetTicks(isotopes, initial_activity)
         IN  IF now + off > DaysToMaxDate * TicksPerDay
             THEN Raised("OverflowError")
             ELSE Returned(now + off)

----------------------------------------------------------------------------
(* The database *)

Ids(rows) == {rows[i].id : i \in 1..Len(rows)}

\* cursor.fetchone() of SELECT ... FROM containers WHERE id = ?
RowOf(rows, container_id) ==
    rows[CHOOSE i \in 1..Len(rows) : rows[i].id = container_id]

NoTx == [containers |-> <<>>, transfers |-> <<>>]

Call(op, container_id, from_location, to_location, transferred_by) ==
    [op |-> op, container_id |-> container_id, from_location |-> from_location,
     to_location |-> to_location, transferred_by |-> transferred_by]

Returning(op, container_id) == Call(op, container_id, "", "", "")

\* the clock values the model visits: at most MaxTicks ticks past at most
\* MaxYears jumps of 365 days
ClockOk(t) == (t % YearTicks) <= MaxTicks /\ (t \div YearTicks) <= MaxYears

Init ==
    /\ containers = <<>>
    /\ transfers = <<>>
    /\ tx = NoTx
    /\ pc = "idle"
    /\ call = Returning("none", "")
    /\ ret = "none"
    /\ clock = 0

----------------------------------------------------------------------------
(* register_container *)

\* the row INSERT INTO containers VALUES (...) writes
NewContainer(container_id, in, created_at, decay_date) ==
    [id |-> container_id, label |-> in.label, waste_type |-> in.waste_type,
     isotopes |-> json_dumps(in.isotopes), activity_bq |-> in.activity_bq,
     volume_l |-> in.volume_l, mass_kg |-> in.mass_kg, location |-> in.location,
     storage_class |-> in.storage_class, created_at |-> created_at,
     decay_date |-> decay_date, status |-> "active"]

\* register_container up to its INSERT.  container_id is what uuid4()[:8]
\* draws; created_at is read from the clock, then _calc_decay_date reads the
\* clock again, d ticks later.  An exception leaves the handler with nothing
\* committed: OverflowError from _calc_decay_date, or sqlite's IntegrityError
\* when the id is already a primary key.
RegisterInsert(container_id, in, d) ==
    /\ pc = "idle"
    /\ ClockOk(clock + d)
    /\ clock' = clock + d
    /\ LET created_at == clock
           decay == _calc_decay_date(in.isotopes, in.activity_bq, clock + d)
       IN  IF decay.exc # ""
           THEN /\ ret' = decay.exc
                /\ call' = Returning("register_container", "")
                /\ UNCHANGED <<containers, transfers, tx, pc>>
           ELSE IF container_id \in Ids(containers)
           THEN /\ ret' = "IntegrityError"
                /\ call' = Returning("register_container", "")
                /\ UNCHANGED <<containers, transfers, tx, pc>>
           ELSE /\ tx' = [containers |-> Append(containers,
                              NewContainer(container_id, in, created_at, decay.date)),
                          transfers |-> transfers]
                /\ pc' = "reg_inserted"
                /\ call' = Returning("register_container", container_id)
                /\ ret' = "none"
                /\ UNCHANGED <<containers, transfers>>

\* conn.commit(); conn.close(); return container_id
RegisterCommit ==
    /\ pc = "reg_inserted"
    /\ containers' = tx.containers
    /\ transfers' = tx.transfers
    /\ tx' = NoTx
    /\ pc' = "idle"
    /\ ret' = call.container_id
    /\ call' = Returning("register_container", call.container_id)
    /\ UNCHANGED clock

----------------------------------------------------------------------------
(* transfer *)

\* without the not-found return: the handler goes on with no from_location
TransferSelect_Unchecked(container_id, to_location, transferred_by, maxT) ==
    /\ pc = "idle"
    /\ Len(transfers) < maxT
    /\ tx' = [containers |-> containers, transfers |-> transfers]
    /\ pc' = "tr_selected"
    /\ call' = Call("transfer", container_id,
                    IF container_id \in Ids(containers)
                    THEN RowOf(containers, container_id).location ELSE "",
                    to_location, transferred_by)
    /\ ret' = "none"
    /\ UNCHANGED <<containers, transfers, clock>>

\* SELECT location FROM containers WHERE id = ?; if not row: return False.
\* maxT bounds the transfer records of the model.
TransferSelect(container_id, to_location, transferred_by, maxT) ==
    /\ pc = "idle"
    /\ IF container_id \notin Ids(containers)
       THEN /\ ret' = "False"
            /\ call' = Returning("transfer", container_id)
            /\ UNCHANGED <<containers, transfers, tx, pc, clock>>
       ELSE /\ Len(transfers) < maxT
            /\ tx' = [containers |-> containers, transfers |-> transfers]
            /\ pc' = "tr_selected"
            /\ call' = Call("transfer", container_id,
                            RowOf(containers, container_id).location,
                            to_location, transferred_by)
            /\ ret' = "none"
            /\ UNCHANGED <<containers, transfers, clock>>

\* on a connection in autocommit mode: the INSERT is committed at once
TransferInsert_Autocommit ==
    /\ pc = "tr_selected"
    /\ tx' = [tx EXCEPT !.transfers = Append(@,
                 [container_id |-> call.container_id,
                  from_location |-> call.from_location,
                  to_location |-> call.to_location,
                  transferred_by |-> call.transferred_by,
                  ts |-> clock, manifested |-> 0])]
    /\ transfers' = tx'.transfers
    /\ pc' = "tr_inserted"
    /\ UNCHANGED <<containers, call, ret, clock>>

\* now = datetime.now().isoformat(); INSERT INTO transfers (...) VALUES (...)
\* with manifested = False, which sqlite stores as 0
TransferInsert ==
    /\ pc = "tr_selected"
    /\ tx' = [tx EXCEPT !.transfers = Append(@,
                 [container_id |-> call.container_id,
                  from_location |-> call.from_location,
                  to_location |-> call.to_location,
                  transferred_by |-> call.transferred_by,
                  ts |-> clock, manifested |-> 0])]
    /\ pc' = "tr_inserted"
    /\ UNCHANGED <<containers, transfers, call, ret, clock>>

\* UPDATE containers SET location = ? with no WHERE clause
TransferUpdate_NoWhere ==
    /\ pc = "tr_inserted"
    /\ tx' = [tx EXCEPT !.containers = [i \in 1..Len(@) |->
                 [@[i] EXCEPT !.location = call.to_location]]]
    /\ pc' = "tr_updated"
    /\ UNCHANGED <<containers, transfers, call, ret, clock>>

\* UPDATE containers SET location = ? WHERE id = ?
TransferUpdate ==
    /\ pc = "tr_inserted"
    /\ tx' = [tx EXCEPT !.containers = [i \in 1..Len(@) |->
                 IF @[i].id = call.container_id
                 THEN [@[i] EXCEPT !.location = call.to_location]
                 ELSE @[i]]]
    /\ pc' = "tr_updated"
    /\ UNCHANGED <<containers, transfers, call, ret, clock>>

\* conn.commit(); conn.close(); return True
TransferCommit ==
    /\ pc = "tr_updated"
    /\ containers' = tx.containers
    /\ transfers' = tx.transfers
    /\ tx' = NoTx
    /\ pc' = "idle"
    /\ ret' = "True"
    /\ call' = Returning("transfer", call.container_id)
    /\ UNCHANGED clock

\* The process dies, or a statement raises, while a connection holds an
\* uncommitted transaction: sqlite rolls the transaction back, the committed
\* tables are what they were.
Crash ==
    /\ pc # "idle"
    /\ tx' = NoTx
    /\ pc' = "idle"
    /\ ret' = "crash"
    /\ call' = Returning(call.op, call.container_id)
    /\ UNCHANGED <<containers, transfers, clock>>

\* Time passes.  Between the statements of a handler it would show only in
\* the timestamps the handler reads, which RegisterInsert's d covers.
Tick(d) ==
    /\ pc = "idle"
    /\ d > 0
    /\ ClockOk(clock + d)
    /\ clock' = clock + d
    /\ UNCHANGED <<containers, transfers, tx, pc, call, ret>>

----------------------------------------------------------------------------
(* Read-only queries, over the committed tables as a new connection reads them *)

\* [row[0] for row in cursor.fetchall()]
IdsOf(rows) == [i \in 1..Len(rows) |-> rows[i].id]

\* SELECT container_id FROM transfers WHERE manifested = 0
UnmanifestedIds(transfer_rows) ==
    {transfer_rows[i].container_id :
        i \in {j \in 1..Len(transfer_rows) : transfer_rows[j].manifested = 0}}

\* with activity >= limit
StorageClassViolations_Geq(rows) ==
    LET active == SelectSeq(rows, LAMBDA r : r.status = "active")
        over == SelectSeq(active,
                    LAMBDA r : ~ActLt(r.activity_bq, STORAGE_LIMITS(r.storage_class)))
    IN  [i \in 1..Len(over) |->
            [container_id |-> over[i].id, activity_bq |-> over[i].activity_bq,
             limit_bq |-> STORAGE_LIMITS(over[i].storage_class)]]

\* issues["storage_class_violations"]
StorageClassViolations(rows) ==
    LET active == SelectSeq(rows, LAMBDA r : r.status = "active")
        over == SelectSeq(active,
                    LAMBDA r : ActGt(r.activity_bq, STORAGE_LIMITS(r.storage_class)))
    IN  [i \in 1..Len(over) |->
            [container_id |-> over[i].id, activity_bq |-> over[i].activity_bq,
             limit_bq |-> STORAGE_LIMITS(over[i].storage_class)]]

\* issues["expired_containers"]
ExpiredContainers(rows, now) ==
    IdsOf(SelectSeq(rows, LAMBDA r : r.decay_date < now /\ r.status = "active"))

\* with a JOIN of containers and transfers in place of id IN (...)
MissingManifests_Join(rows, transfer_rows) ==
    LET joined == SelectSeq(transfer_rows,
                      LAMBDA t : /\ t.manifested = 0
                                 /\ \E i \in 1..Len(rows) :
                                        rows[i].id = t.container_id /\ rows[i].status = "active")
    IN  [i \in 1..Len(joined) |-> joined[i].container_id]

\* issues["missing_manifests"]
MissingManifests(rows, transfer_rows) ==
    IdsOf(SelectSeq(rows, LAMBDA r : /\ r.id \in UnmanifestedIds(transfer_rows)
                                     /\ r.status = "active"))

\* compliance_check run when datetime.now() = now
compliance_check(now) ==
    [storage_class_violations |-> StorageClassViolations(containers),
     expired_containers |-> ExpiredContainers(containers, now),
     missing_manifests |-> MissingManifests(containers, transfers)]

RECURSIVE SumHalfLives(_)
SumHalfLives(isotopes) ==
    IF isotopes = <<>> THEN 0
    ELSE HALF_LIVES(Head(isotopes)) + SumHalfLives(Tail(isotopes))

\* A Python number activity * 0.5 ** ((days / 365.25) / (hl_sum / n)), half
\* lives in hundredths of a year.  0 * x is 0.0 and x * 0.5 ** 0 is x, so the
\* exponent is kept only where it changes the value; 0 == 0.0 in Python.
PyNumber(activity, days, hl_sum, n) ==
    IF activity = ZeroBq \/ days = 0
    THEN [activity |-> activity, days |-> 0, hl_sum |-> 0, n |-> 0]
    ELSE [activity |-> activity, days |-> days, hl_sum |-> hl_sum, n |-> n]

\* decay_correct run when datetime.now() = now
decay_correct(container_id, now) ==
    IF container_id \notin Ids(containers)
    THEN PyNumber(ZeroBq, 0, 0, 0)
    ELSE LET row == RowOf(containers, container_id)
             isotopes == json_loads(row.isotopes)
             elapsed_days == (now - row.created_at) \div TicksPerDay
         IN  IF isotopes # <<>>
             THEN PyNumber(row.activity_bq, elapsed_days,
                           SumHalfLives(isotopes), Len(isotopes))
             ELSE PyNumber(row.activity_bq, elapsed_days, 100, 1)

\* generate_manifest run when datetime.now() = now: "" is the empty sequence,
\* the manifest text the sequence of what the template interpolates
generate_manifest(transfer_id, now) ==
    IF transfer_id \notin 1..Len(transfers)
    THEN <<>>
    ELSE LET transfer == transfers[transfer_id]
         IN  IF transfer.container_id \notin Ids(containers)
             THEN <<>>
             ELSE LET container == RowOf(containers, transfer.container_id)
                  IN  <<"NUCLEAR WASTE TRANSFER MANIFEST", now,
                        transfer.container_id, container.label,
                        container.waste_type, container.isotopes,
                        container.activity_bq, container.volume_l,
                        container.mass_kg, transfer.from_location,
                        transfer.to_location, transfer.transferred_by,
                        transfer.ts, transfer_id>>

----------------------------------------------------------------------------
(* Inputs and specifications *)

LOCATIONS == {"vault-A", "vault-B"}
ACTORS == {"op1"}
STORAGE_CLASSES ==
    {"low_level", "intermediate", "high_level", "transuranic", "exempt", "other"}
ISOTOPE_LISTS ==
    {<<>>, <<"Co-60">>, <<"Xx-99">>, <<"Co-60", "Cs-137">>, <<"Pu-239">>}
ACTIVITIES ==
    {Bq(-1, 999995), ZeroBq, Bq(0, 500), Bq(0, 1000), Bq(0, 1001), Bq(0, 2000),
     Bq(1, 0), Bq(1, 1), Bq(1000, 0), Bq(1000, 1), Bq(1000000, 0), Bq(1000000, 1)}

Input(isotopes, activity_bq, location, storage_class) ==
    [label |-> "drum", waste_type |-> "low_level", isotopes |-> isotopes,
     activity_bq |-> activity_bq, volume_l |-> 200, mass_kg |-> 50,
     location |-> location, storage_class |-> storage_class]

\* Spec: two container ids, few kinds of container, transfers and crashes;
\* the two clock reads of register_container fall in the same tick
UUIDS == {"c1", "c2"}
TRANSFER_IDS == UUIDS \cup {"c9"}
INPUTS ==
    {Input(<<"Co-60">>, a, loc, "exempt") : a \in {ZeroBq, Bq(0, 2000)}, loc \in LOCATIONS}

Next ==
    \/ \E id \in UUIDS, in \in INPUTS : RegisterInsert(id, in, 0)
    \/ RegisterCommit
    \/ \E id \in TRANSFER_IDS, to \in LOCATIONS, by \in ACTORS :
           TransferSelect(id, to, by, MaxTransfersLedger)
    \/ TransferInsert
    \/ TransferUpdate
    \/ TransferCommit
    \/ Crash
    \/ Tick(1)

Spec == Init /\ [][Next]_vars

\* SpecDecay: one container id, every isotope list with every activity and
\* every storage class with every activity, a year of time
UUIDS_DECAY == {"c1"}
TRANSFER_IDS_DECAY == UUIDS_DECAY \cup {"c9"}
INPUTS_DECAY ==
    {Input(iso, a, "vault-A", "high_level") : iso \in ISOTOPE_LISTS, a \in ACTIVITIES}
    \cup {Input(<<"Co-60">>, a, "vault-A", sc) : a \in ACTIVITIES, sc \in STORAGE_CLASSES}

\* Once every id is taken register_container can only raise, OverflowError
\* or IntegrityError, whatever else its arguments are: one input for each.
INPUTS_RAISING ==
    {Input(<<"Pu-239">>, a, "vault-A", "exempt") : a \in {ZeroBq, Bq(0, 2000)}}

InputsDecay == IF UUIDS_DECAY \subseteq Ids(containers) THEN INPUTS_RAISING ELSE INPUTS_DECAY

NextDecay ==
    \/ \E id \in UUIDS_DECAY, in \in InputsDecay, d \in 0..1 : RegisterInsert(id, in, d)
    \/ RegisterCommit
    \/ \E id \in TRANSFER_IDS_DECAY, by \in ACTORS :
           TransferSelect(id, "vault-B", by, MaxTransfersDecay)
    \/ TransferInsert
    \/ TransferUpdate
    \/ TransferCommit
    \/ Crash
    \/ \E d \in {1, YearTicks} : Tick(d)

SpecDecay == Init /\ [][NextDecay]_vars

----------------------------------------------------------------------------
(* Properties checked under Spec *)

Count(seq, x) == Cardinality({i \in 1..Len(seq) : seq[i] = x})

TransfersOf(container_id) ==
    {j \in 1..Len(transfers) : transfers[j].container_id = container_id}

\* C1: a transfer whose container_id references no existing container
\* returns False and leaves the containers, with every field, and the list
\* of transfer records as they were, whatever to_location and transferred_by.
C1_FailedTransferStep ==
    (/\ pc = "idle"
     /\ call'.op = "transfer"
     /\ call'.container_id \notin Ids(containers))
    => (/\ pc' = "idle"
        /\ ret' = "False"
        /\ containers' = containers
        /\ transfers' = transfers)

\* C1: every step is one of those
C1_FailedTransferUnchanged == [][C1_FailedTransferStep]_vars

\* a failed transfer has returned while containers and transfer records exist
C1_Witness ==
    /\ pc = "idle"
    /\ ret = "False"
    /\ call.op = "transfer"
    /\ containers # <<>>
    /\ transfers # <<>>

\* C2: in every committed state, crashes between the statements of a
\* transfer included, a container with transfer records is where its most
\* recent record says; and the committed tables change only by a whole
\* register (one container appended) or a whole transfer (one record
\* appended and the location of its container set to its to_location).
C2_LocationIsLastTransfer ==
    \A i \in 1..Len(containers) :
        LET mine == TransfersOf(containers[i].id)
        IN  mine # {} => containers[i].location = transfers[Max(mine)].to_location

C2_WholeStep ==
    (containers' # containers \/ transfers' # transfers) =>
        \/ /\ transfers' = transfers
           /\ Len(containers') = Len(containers) + 1
           /\ SubSeq(containers', 1, Len(containers)) = containers
        \/ /\ Len(transfers') = Len(transfers) + 1
           /\ SubSeq(transfers', 1, Len(transfers)) = transfers
           /\ LET record == transfers'[Len(transfers')]
              IN  /\ record.container_id \in Ids(containers)
                  /\ record.from_location =
                         RowOf(containers, record.container_id).location
                  /\ containers' = [i \in 1..Len(containers) |->
                         IF containers[i].id = record.container_id
                         THEN [containers[i] EXCEPT !.location = record.to_location]
                         ELSE containers[i]]

\* C2: transfer is all-or-nothing in the committed tables
C2_TransferAllOrNothing == [](C2_LocationIsLastTransfer) /\ [][C2_WholeStep]_vars

\* a transfer was interrupted after an earlier one had been committed
C2_Witness ==
    /\ pc = "idle"
    /\ ret = "crash"
    /\ call.op = "transfer"
    /\ transfers # <<>>

\* C3: a step changes no field of a container already in the table other
\* than location (so decay_date stays what registration computed), and changes
\* a location only as the commit of a successful transfer of that container,
\* to the transfer's to_location.
C3_OnlyLocationStep ==
    /\ Len(containers') >= Len(containers)
    /\ \A i \in 1..Len(containers) :
           LET old == containers[i]
               new == containers'[i]
           IN  /\ [new EXCEPT !.location = old.location] = old
               /\ new.location # old.location =>
                      /\ pc = "tr_updated"
                      /\ ret' = "True"
                      /\ old.id = call.container_id
                      /\ new.location = call.to_location
    /\ (pc = "tr_updated" /\ ret' = "True") =>
           RowOf(containers', call.container_id).location = call.to_location

\* C3: a transfer changes only the location of its container
C3_TransferChangesOnlyLocation == [][C3_OnlyLocationStep]_vars

\* a transfer between two places has been committed with two containers,
\* the other one somewhere else
C3_Witness ==
    /\ pc = "idle"
    /\ ret = "True"
    /\ call.op = "transfer"
    /\ Len(containers) = 2
    /\ containers[1].location # containers[2].location
    /\ \E j \in 1..Len(transfers) : transfers[j].from_location # transfers[j].to_location

\* C6: missing_manifests holds a container id exactly once if the container
\* is active and has a transfer record with manifested false, and not at all
\* otherwise.
C6_MissingManifestsOnce ==
    \A id \in TRANSFER_IDS :
        Count(compliance_check(clock).missing_manifests, id) =
            IF /\ \E i \in 1..Len(containers) :
                      containers[i].id = id /\ containers[i].status = "active"
               /\ \E j \in TransfersOf(id) : transfers[j].manifested = 0
            THEN 1 ELSE 0

\* a container with two unmanifested transfer records, another with none
C6_Witness ==
    /\ Len(containers) = 2
    /\ \E id \in Ids(containers) : Cardinality(TransfersOf(id)) = 2
    /\ Len(compliance_check(clock).missing_manifests) = 1

\* generate_manifest returns "" for an absent transfer id and a manifest,
\* never "", for a present one
C10_ManifestDistinguishable ==
    /\ generate_manifest(Len(transfers) + 1, clock) = <<>>
    /\ \A present \in 1..Len(transfers) : generate_manifest(present, clock) # <<>>

\* decay_correct returns for an absent container id a number it returns for
\* no present one
C10_DecayCorrectDistinguishable ==
    \A absent \in TRANSFER_IDS \ Ids(containers), present \in Ids(containers) :
        decay_correct(absent, clock) # decay_correct(present, clock)

\* C10: the result of transfer (False, against True), decay_correct and
\* generate_manifest for an absent id differs from every result the
\* operation returns for a present one.
C10_NotFoundDistinguishable ==
    /\ ret = "False" => (call.op = "transfer" /\ call.container_id \notin Ids(containers))
    /\ C10_ManifestDistinguishable
    /\ C10_DecayCorrectDistinguishable

----------------------------------------------------------------------------
(* Properties checked under SpecDecay *)

IsEmptyList(row) == json_loads(row.isotopes) = <<>>

AtOrBelowThreshold(row) ==
    ActLeq(ZeroBq, row.activity_bq) /\ ActLeq(row.activity_bq, Bq(0, 1000))

\* C4: every registered container has decay_date >= created_at.
C4_DecayDateNotBeforeCreation ==
    \A i \in 1..Len(containers) : containers[i].decay_date >= containers[i].created_at

\* a container above the threshold with a known isotope, its decay date later
C4_Witness ==
    \E i \in 1..Len(containers) :
        /\ ~IsEmptyList(containers[i])
        /\ ActGt(containers[i].activity_bq, Bq(0, 1000))
        /\ containers[i].decay_date > containers[i].created_at

C5_RegisterStep ==
    (pc = "idle" /\ pc' = "reg_inserted") =>
        LET row == tx'.containers[Len(tx'.containers)]
        IN  /\ (~IsEmptyList(row) /\ AtOrBelowThreshold(row)) =>
                   (row.decay_date = clock' /\ row.decay_date >= row.created_at)
            /\ IsEmptyList(row) =>
                   row.decay_date = clock' + 365 * TicksPerDay

Expired(id, now) == id \in Range(compliance_check(now).expired_containers)

\* expired_containers at time now is exactly the active containers with
\* decay_date < now, each once
C7_ExactlyExpired ==
    \A id \in TRANSFER_IDS_DECAY :
        Count(compliance_check(clock).expired_containers, id) =
            IF \E i \in 1..Len(containers) :
                   /\ containers[i].id = id
                   /\ containers[i].status = "active"
                   /\ containers[i].decay_date < clock
            THEN 1 ELSE 0

\* a container registered with an empty isotope list is not listed less
\* than 365 days after created_at
C7_NotListedWithin365Days ==
    \A i \in 1..Len(containers) :
        (IsEmptyList(containers[i])
         /\ clock < containers[i].created_at + 365 * TicksPerDay)
        => ~Expired(containers[i].id, clock)

\* and is listed more than 365 days after created_at
C7_ListedPast365Days ==
    \A i \in 1..Len(containers) :
        (IsEmptyList(containers[i])
         /\ clock > containers[i].created_at + 365 * TicksPerDay)
        => Expired(containers[i].id, clock)

\* once listed a container is listed by every later check
C7_OnceListedStaysListed ==
    [][\A id \in Ids(containers) : Expired(id, clock) => Expired(id, clock)']_vars

\* C7: expired_containers at time now is exactly the active containers with
\* decay_date < now; a container registered with an empty isotope list is
\* not listed less than 365 days after created_at and is listed more than
\* 365 days after it.
C7_ExpiredAfter365Days ==
    /\ C7_ExactlyExpired
    /\ C7_NotListedWithin365Days
    /\ C7_ListedPast365Days

\* the limits as C8 lists them
C8_Limit(storage_class) ==
    CASE storage_class = "low_level"    -> Bq(1, 0)
      [] storage_class = "intermediate" -> Bq(1000, 0)
      [] storage_class = "high_level"   -> Bq(1000000, 0)
      [] storage_class = "transuranic"  -> Bq(1, 0)
      [] storage_class = "exempt"       -> Bq(0, 1000)
      [] OTHER                          -> Bq(1, 0)

\* the storage_class_violations of a compliance check run now
Violations == StorageClassViolations(containers)

Violating(id) == \E k \in 1..Len(Violations) : Violations[k].container_id = id

\* C8: storage_class_violations has an entry for a container exactly if it
\* is active and its stored activity_bq is above the limit of its storage
\* class (1e6 for a class outside the five), the entry carrying that activity
\* and limit; and no step, of time or of a transfer, changes whether a
\* container has one.
C8_ViolationIffAboveLimit ==
    /\ compliance_check(clock).storage_class_violations = Violations
    /\ \A id \in TRANSFER_IDS_DECAY :
           Violating(id) <=>
               \E i \in 1..Len(containers) :
                   /\ containers[i].id = id
                   /\ containers[i].status = "active"
                   /\ ActGt(containers[i].activity_bq, C8_Limit(containers[i].storage_class))
    /\ \A v \in Range(Violations) :
           /\ v.activity_bq = RowOf(containers, v.container_id).activity_bq
           /\ v.limit_bq = C8_Limit(RowOf(containers, v.container_id).storage_class)

C8_StableStep == \A id \in Ids(containers) : Violating(id)' = Violating(id)

\* C8: the violations are the containers above their limit, and stay so
C8_StorageClassViolations == [](C8_ViolationIffAboveLimit) /\ [][C8_StableStep]_vars

\* a high_level container at exactly 1e12 Bq, a year and a transfer later
C8_Witness ==
    /\ \E i \in 1..Len(containers) :
           /\ containers[i].storage_class = "high_level"
           /\ containers[i].activity_bq = Bq(1000000, 0)
           /\ clock >= containers[i].created_at + YearTicks
    /\ transfers # <<>>
    /\ compliance_check(clock).storage_class_violations = <<>>

\* C9: no container with a negative activity_bq is ever in the ledger.
C9_NoNegativeActivity ==
    \A i \in 1..Len(containers) : ~ActLt(containers[i].activity_bq, ZeroBq)

====
